---- MODULE Spec2Model ----
(***************************************************************************)
(* unity-alerts: a batch job that reads incident rows from a store, posts  *)
(* one Discord message per new active incident and edits the message to a  *)
(* "cleared" variant once the incident's status is cleared.                *)
(*                                                                         *)
(* Two generations of the program are modelled:                            *)
(*   earlier  src/main.go            (sent-state file, camera link field)  *)
(*   later    src/unnamed/part_000   (discord_message_id IS NULL filter,   *)
(*                                    camera capture, ArcGIS_Police,       *)
(*                                    NOTIFY_DISCORD toggle)               *)
(*                                                                         *)
(* Emoji of the titles and the degree sign are written as ASCII            *)
(* placeholders (":blue_circle:", "deg") since strings here are ASCII.     *)
(***************************************************************************)
EXTENDS Integers, Sequences, FiniteSets, TLC

VARIABLES
    gen,                     \* which binary is deployed: "earlier" | "later"
    status,                  \* unified_incidents.status, per incident
    disc,                    \* unified_incidents.discord_message_id (0 = NULL)
    msgs,                    \* the channel: message id -> [inc, state]
    sentFile,                \* content of sent_unified_alerts.json (earlier)
    sentIDs,                 \* main's in-memory map sentIDs (earlier)
    pc,                      \* position of main: "idle" | "pass1" | "pass2"
    rows,                    \* remaining rows of the Step 1 result set
    clearedRows,             \* remaining rows of the Step 2 result set
    notifyDiscord,           \* os.Getenv("NOTIFY_DISCORD") of this run
    newIncidentsFound,       \* main's counter
    clearedIncidentsUpdated, \* main's counter
    runs,                    \* completed invocations
    hist,                    \* observations of the current run (history)
    last,                    \* what the last step of main did (history)
    bIn,                     \* builder check: the input drawn
    bOut                     \* builder check: what sendDiscordAlert returned

dvars == <<gen, status, disc, msgs, sentFile, sentIDs, pc, rows, clearedRows,
           notifyDiscord, newIncidentsFound, clearedIncidentsUpdated, runs,
           hist, last>>
bvars == <<bIn, bOut>>
vars == <<gen, status, disc, msgs, sentFile, sentIDs, pc, rows, clearedRows,
          notifyDiscord, newIncidentsFound, clearedIncidentsUpdated, runs,
          hist, last, bIn, bOut>>

-----------------------------------------------------------------------------
(* Bounds of the model *)

NInc == 2        \* incidents in the store
MaxRuns == 2     \* invocations of the program
MaxCams == 4     \* rows of traffic_cameras

(* Program constants *)

CameraLimit == 3
ColorGreen == 3066993
ColorYellow == 16776960
ColorRed == 15158332
ColorNeutral == 2105893
ColorBlue == 3447003
ColorPurple == 9807270
SleepSeconds == 2

Min(a, b) == IF a < b THEN a ELSE b

-----------------------------------------------------------------------------
(* JSON documents (the details column) and encoding/json's decoding *)

JNull == [t |-> "null"]
JInvalid == [t |-> "invalid"]       \* bytes that are not JSON (NULL column)
JArr == [t |-> "array"]
JStr(s) == [t |-> "string", s |-> s]
JNum(n) == [t |-> "number", n |-> n]
JObj(o) == [t |-> "object", o |-> o]
NoMembers == [k \in {} |-> JNull]

\* json.Unmarshal(data, &map[string]json.RawMessage): an object decodes to
\* its members, null to a nil map, anything else is an error.
UnmarshalMap(doc) ==
    [err |-> doc.t \notin {"object", "null"},
     m |-> IF doc.t = "object" THEN doc.o ELSE NoMembers]

\* json.Unmarshal(data, &struct): the members the struct decoder sees. A
\* document that is no object leaves the struct as it was.
Members(doc) == IF doc.t = "object" THEN doc.o ELSE NoMembers

\* (mutant) a field that was not decoded holds a placeholder, not the zero value
StrFieldPlaceholder(m, k) ==
    IF k \in DOMAIN m /\ m[k].t = "string" THEN m[k].s ELSE "N/A"

\* A string field of the struct: set from a string member, else the zero value.
StrField(m, k) ==
    IF k \in DOMAIN m /\ m[k].t = "string" THEN m[k].s ELSE ""

\* An int field of the struct: set from a number member, else the zero value.
IntField(m, k) ==
    IF k \in DOMAIN m /\ m[k].t = "number" THEN m[k].n ELSE 0

\* json.Unmarshal's error for a struct of string fields S and int fields I.
UnmarshalStructErr(doc, S, I) ==
    \/ doc.t \notin {"object", "null"}
    \/ /\ doc.t = "object"
       /\ \/ \E k \in S \cap DOMAIN doc.o : doc.o[k].t \notin {"string", "null"}
          \/ \E k \in I \cap DOMAIN doc.o : doc.o[k].t \notin {"number", "null"}

-----------------------------------------------------------------------------
(* strconv.Itoa, strings.Join, strings.HasPrefix *)

Digit(d) ==
    CASE d = 0 -> "0" [] d = 1 -> "1" [] d = 2 -> "2" [] d = 3 -> "3"
      [] d = 4 -> "4" [] d = 5 -> "5" [] d = 6 -> "6" [] d = 7 -> "7"
      [] d = 8 -> "8" [] OTHER -> "9"

RECURSIVE ItoaNat(_)
ItoaNat(n) == IF n < 10 THEN Digit(n) ELSE ItoaNat(n \div 10) \o Digit(n % 10)

Itoa(n) == IF n < 0 THEN "-" \o ItoaNat(0 - n) ELSE ItoaNat(n)

RECURSIVE Join(_, _)
Join(parts, sep) ==
    IF Len(parts) = 0 THEN ""
    ELSE IF Len(parts) = 1 THEN parts[1]
    ELSE parts[1] \o sep \o Join(Tail(parts), sep)

\* (mutant) the whole string is compared, not its prefix
HasPrefixWhole(s, p) == s = p

\* strings.HasPrefix
HasPrefix(s, p) == Len(s) >= Len(p) /\ SubSeq(s, 1, Len(p)) = p

Contains(s, sub) ==
    \E i \in 1..(Len(s) - Len(sub) + 1) : SubSeq(s, i, i + Len(sub) - 1) = sub

-----------------------------------------------------------------------------
(* Camera Directory *)

\* One row of traffic_cameras, with its position.
Cam(k) ==
    [name |-> "cam" \o Itoa(k), url |-> "http://c/" \o Itoa(k),
     lat |-> CASE k = 1 -> 5 [] k = 2 -> 1 [] k = 3 -> 4 [] k = 4 -> 2
               [] OTHER -> 3,
     lon |-> 0]

Dist(c, lat, lon) == (c.lat - lat) * (c.lat - lat) + (c.lon - lon) * (c.lon - lon)

\* ORDER BY geom <-> point: the rows nearest first.
RECURSIVE NearestFirst(_, _, _)
NearestFirst(S, lat, lon) ==
    IF S = {} THEN <<>>
    ELSE LET c == CHOOSE c \in S : \A d \in S : Dist(c, lat, lon) <= Dist(d, lat, lon)
         IN <<c>> \o NearestFirst(S \ {c}, lat, lon)

\* findNearbyCameras: the limit nearest rows, or nil with an error.
findNearbyCameras(dir, lat, lon, limit, outcome) ==
    IF outcome = "err" THEN <<>>
    ELSE LET all == NearestFirst(dir, lat, lon)
         IN SubSeq(all, 1, Min(limit, Len(all)))

Link(cam) == "[" \o cam.name \o "](" \o cam.url \o ")"

\* the rows i..Len(cams) as links
RECURSIVE LinksFrom(_, _)
LinksFrom(cams, i) ==
    IF i > Len(cams) THEN <<>> ELSE <<Link(cams[i])>> \o LinksFrom(cams, i + 1)

-----------------------------------------------------------------------------
(* Payloads *)

Field(n, v) == [name |-> n, value |-> v]

Embed(title, color, fields, footer, thumbnail, image) ==
    [username |-> "Unified Alert Bot", title |-> title, color |-> color,
     fields |-> fields, footer |-> footer, thumbnail |-> thumbnail,
     image |-> image]

NoPayload == [username |-> "", title |-> "", color |-> 0, fields |-> <<>>,
              footer |-> "", thumbnail |-> "", image |-> ""]

FieldNames(p) == {p.fields[k].name : k \in 1..Len(p.fields)}

FieldValue(p, n) ==
    LET k == CHOOSE k \in 1..Len(p.fields) : p.fields[k].name = n
    IN p.fields[k].value

\* The new/legacy parse the three later builders share: the members the
\* rawIncident struct is decoded from, and the weather sub-document.
ParseDetails(details) ==
    LET dm == UnmarshalMap(details)
    IN IF ~dm.err
       THEN [raw |-> IF "raw_incident" \in DOMAIN dm.m
                     THEN Members(dm.m["raw_incident"]) ELSE NoMembers,
             hasWeather |-> "weather" \in DOMAIN dm.m /\ dm.m["weather"].t # "null",
             weather |-> IF "weather" \in DOMAIN dm.m
                         THEN Members(dm.m["weather"]) ELSE NoMembers]
       ELSE [raw |-> Members(details), hasWeather |-> FALSE, weather |-> NoMembers]

\* fmt.Sprintf("%s\nTemp: %d degF\nWind: %s", ShortForecast, Temperature, WindSpeed)
WeatherValue(w) ==
    StrField(w, "shortForecast") \o "\nTemp: " \o Itoa(IntField(w, "temperature"))
        \o "degF\nWind: " \o StrField(w, "windSpeed")

WeatherFields(pd) ==
    IF pd.hasWeather
    THEN <<Field("Weather Conditions", WeatherValue(pd.weather))>> ELSE <<>>

\* (mutant) the field lists every camera, the attached one too
OtherCameraFieldsAll(nearbyCameras) ==
    IF Len(nearbyCameras) > 1
    THEN <<Field("Other Live Cameras", Join(LinksFrom(nearbyCameras, 1), "\n"))>>
    ELSE <<>>

\* the "Other Live Cameras" field of the later builders
OtherCameraFields(nearbyCameras) ==
    IF Len(nearbyCameras) > 1
    THEN <<Field("Other Live Cameras", Join(LinksFrom(nearbyCameras, 2), "\n"))>>
    ELSE <<>>

\* the "Nearby Cameras" field of the earlier senders
NearbyCameraFields(nearbyCameras) ==
    IF Len(nearbyCameras) > 0
    THEN <<Field("Nearby Cameras", Join(LinksFrom(nearbyCameras, 1), "\n"))>>
    ELSE <<>>

\* (mutant) the switch without its case 3
SeverityColorNoRed(severity) ==
    CASE severity = 1 -> ColorGreen
      [] severity = 2 -> ColorYellow
      [] OTHER -> ColorNeutral

\* the switch on Severity
SeverityColor(severity) ==
    CASE severity = 1 -> ColorGreen
      [] severity = 2 -> ColorYellow
      [] severity = 3 -> ColorRed
      [] OTHER -> ColorNeutral

\* the static map of NCDOT and RWECC: a 300x300 thumbnail, red marker
MapThumbnail(mapsAPIKey, incident) ==
    IF mapsAPIKey # "" /\ incident.latValid /\ incident.lonValid
    THEN "staticmap?zoom=14&size=300x300&markers=color:red&key=" \o mapsAPIKey
    ELSE ""

\* the static map of ArcGIS_Police: a 600x400 image, purple marker
MapImage(mapsAPIKey, incident) ==
    IF mapsAPIKey # "" /\ incident.latValid /\ incident.lonValid
    THEN "staticmap?zoom=15&size=600x400&markers=color:purple&key=" \o mapsAPIKey
    ELSE ""

\* (mutant) the image reference is set without the test attachmentName != ""
AttachmentImageAlways(attachmentName) == "attachment://" \o attachmentName

\* if attachmentName != "": the embed shows the attached file
AttachmentImage(attachmentName) ==
    IF attachmentName # "" THEN "attachment://" \o attachmentName ELSE ""

buildNcdotPayload(mapsAPIKey, incident, nearbyCameras, attachmentName) ==
    LET pd == ParseDetails(incident.details)
        severity == IntField(pd.raw, "severity")
        fields == <<Field("Reason", StrField(pd.raw, "reason")),
                    Field("Road", StrField(pd.raw, "road")),
                    Field("Location", StrField(pd.raw, "location")),
                    Field("Severity", Itoa(severity))>>
                  \o WeatherFields(pd) \o OtherCameraFields(nearbyCameras)
    IN Embed(":rotating_light: NC DOT - Incident Alert :rotating_light:",
             SeverityColor(severity), fields, "Source: NC DOT API",
             MapThumbnail(mapsAPIKey, incident), AttachmentImage(attachmentName))

buildRweccPayload(mapsAPIKey, incident, nearbyCameras, attachmentName) ==
    LET pd == ParseDetails(incident.details)
        fields == <<Field("Address", incident.address),
                    Field("Jurisdiction", StrField(pd.raw, "jurisdiction"))>>
                  \o WeatherFields(pd) \o OtherCameraFields(nearbyCameras)
    IN Embed(":blue_circle: " \o StrField(pd.raw, "problem") \o " :blue_circle:",
             ColorBlue, fields, "Source: Raleigh-Wake ECC",
             MapThumbnail(mapsAPIKey, incident), AttachmentImage(attachmentName))

buildArcGisPayload(mapsAPIKey, incident) ==
    LET pd == ParseDetails(incident.details)
        caseNumber == StrField(pd.raw, "case_number")
        fields == <<Field("Address", incident.address),
                    Field("Agency", StrField(pd.raw, "agency"))>>
                  \o (IF ~HasPrefix(caseNumber, "NO_CASE-")
                      THEN <<Field("Case #", caseNumber)>> ELSE <<>>)
                  \o <<Field("Reported", "Mon, Jan 2, 3:04 PM")>>
    IN Embed(":purple_circle: " \o StrField(pd.raw, "crime_description")
                 \o " :purple_circle:",
             ColorPurple, fields, "Source: Police Incidents Feed",
             "", MapImage(mapsAPIKey, incident))

\* updateDiscordAlert's embed: the cleared variant
ClearedPayload(incident) ==
    [username |-> "", title |-> ":check: Incident Cleared :check:",
     color |-> ColorGreen,
     fields |-> <<Field("Source", incident.source),
                  Field("Address", incident.address)>>,
     footer |-> "Incident no longer in active feed",
     thumbnail |-> "", image |-> ""]

-----------------------------------------------------------------------------
(* Sending: what one call of sendDiscordAlert does.  env holds the outcomes *)
(* of the collaborators: dir (the rows of traffic_cameras), lookup          *)
(* ("ok" | "err"), capture ("ok" | "getErr" | "non200" | "createErr" |      *)
(* "copyErr"), audit (the INSERT succeeds), post ("ok" | "err").            *)

SendResult(err, posted, requested, payload, attachment, lookups, cams, cap, filesLeft) ==
    [err |-> err, posted |-> posted, requested |-> requested, payload |-> payload,
     attachment |-> attachment, lookups |-> lookups, cams |-> cams,
     downloads |-> cap.downloads, audits |-> cap.audits,
     filesMade |-> cap.made, filesLeft |-> filesLeft]

NoCapture == [path |-> "", name |-> "", err |-> FALSE, downloads |-> <<>>,
              audits |-> <<>>, made |-> {}, left |-> {}]

\* captureCameraImage: download the camera's frame to a temporary file.
captureCameraImage(incidentID, camera, outcome, auditOk) ==
    LET fileName == "incident_" \o Itoa(incidentID) \o "_cam_20060102150405.jpg"
        filePath == "/tmp/" \o fileName
    IN CASE outcome \in {"getErr", "non200", "createErr"} ->
              [path |-> "", name |-> "", err |-> TRUE,
               downloads |-> <<camera.url>>, audits |-> <<>>,
               made |-> {}, left |-> {}]
         [] outcome = "copyErr" ->
              [path |-> "", name |-> "", err |-> TRUE,
               downloads |-> <<camera.url>>, audits |-> <<>>,
               made |-> {filePath}, left |-> {}]
         [] OTHER ->
              [path |-> filePath, name |-> fileName, err |-> FALSE,
               downloads |-> <<camera.url>>,
               audits |-> IF auditOk THEN <<[incident |-> incidentID,
                                             camera |-> camera.name,
                                             path |-> filePath]>>
                          ELSE <<>>,
               made |-> {filePath}, left |-> {filePath}]

\* postMultipartToWebhook / postToWebhook: the message is created and its id
\* returned, or an error is.
PostOk(outcome) == outcome = "ok"

\* (mutant) every source but NCDOT and RWECC goes to the ArcGIS builder
SkipsCamerasElse(source) == source \notin {"NCDOT", "RWECC"}

\* (mutant) the tag is misspelt, so no source skips the camera work
SkipsCamerasTypo(source) == source = "ArcGIS"

\* the branch of sendDiscordAlert that skips camera work
SkipsCameras(source) == source = "ArcGIS_Police"

\* the guard of the camera lookup
HasCoordinates(incident) == incident.latValid /\ incident.lonValid

\* the attachment sendDiscordAlert hands to the post after a capture
AttachmentPathOf(cap) == IF cap.err THEN "" ELSE cap.path

\* (mutant) no removal is deferred
DeferredRemoveNone(left, attachmentPath) == left

\* if attachmentPath != "" { defer os.Remove(attachmentPath) }: the files
\* left when sendDiscordAlert returns
DeferredRemove(left, attachmentPath) ==
    IF attachmentPath # "" THEN left \ {attachmentPath} ELSE left

\* sendDiscordAlert of the later generation
sendDiscordAlert(mapsAPIKey, incident, env) ==
    IF ~SkipsCameras(incident.source)
    THEN LET coords == HasCoordinates(incident)
             lookups == IF coords THEN <<CameraLimit>> ELSE <<>>
             nearbyCameras ==
                 IF coords
                 THEN findNearbyCameras(env.dir, incident.lat, incident.lon,
                                        CameraLimit, env.lookup)
                 ELSE <<>>
             cap == IF Len(nearbyCameras) > 0
                    THEN captureCameraImage(incident.id, nearbyCameras[1],
                                            env.capture, env.audit)
                    ELSE NoCapture
             attachmentPath == AttachmentPathOf(cap)
             attachmentName == cap.name
             filesLeft == DeferredRemove(cap.left, attachmentPath)
             payload ==
                 IF incident.source = "NCDOT"
                 THEN buildNcdotPayload(mapsAPIKey, incident, nearbyCameras, attachmentName)
                 ELSE IF incident.source = "RWECC"
                 THEN buildRweccPayload(mapsAPIKey, incident, nearbyCameras, attachmentName)
                 ELSE NoPayload
         IN IF incident.source \in {"NCDOT", "RWECC"}
            THEN SendResult(~PostOk(env.post), PostOk(env.post), TRUE, payload,
                            attachmentPath, lookups, nearbyCameras, cap, filesLeft)
            ELSE SendResult(TRUE, FALSE, FALSE, NoPayload, "", lookups, nearbyCameras,
                            cap, filesLeft)
    ELSE SendResult(~PostOk(env.post), PostOk(env.post), TRUE,
                    buildArcGisPayload(mapsAPIKey, incident), "", <<>>, <<>>,
                    NoCapture, {})

\* the enrichment step of the earlier senders
EarlyCameras(incident, env) ==
    IF HasCoordinates(incident)
    THEN findNearbyCameras(env.dir, incident.lat, incident.lon, CameraLimit, env.lookup)
    ELSE <<>>

EarlyLookups(incident) == IF HasCoordinates(incident) THEN <<CameraLimit>> ELSE <<>>

\* sendNcdotAlert of the earlier generation
sendNcdotAlert(mapsAPIKey, incident, env) ==
    IF UnmarshalStructErr(incident.details, {"reason", "road", "location"}, {"severity"})
    THEN SendResult(TRUE, FALSE, FALSE, NoPayload, "", <<>>, <<>>, NoCapture, {})
    ELSE LET m == Members(incident.details)
             severity == IntField(m, "severity")
             nearbyCameras == EarlyCameras(incident, env)
             fields == <<Field("Reason", StrField(m, "reason")),
                         Field("Road", StrField(m, "road")),
                         Field("Location", StrField(m, "location")),
                         Field("Severity", Itoa(severity))>>
                       \o NearbyCameraFields(nearbyCameras)
             payload == Embed(":rotating_light: NC DOT - New Vehicle Crash :rotating_light:",
                              SeverityColor(severity), fields, "Source: NC DOT API",
                              MapThumbnail(mapsAPIKey, incident), "")
         IN SendResult(~PostOk(env.post), PostOk(env.post), TRUE, payload, "",
                       EarlyLookups(incident), nearbyCameras, NoCapture, {})

\* sendRweccAlert of the earlier generation
sendRweccAlert(mapsAPIKey, incident, env) ==
    IF UnmarshalStructErr(incident.details, {"problem", "jurisdiction"}, {})
    THEN SendResult(TRUE, FALSE, FALSE, NoPayload, "", <<>>, <<>>, NoCapture, {})
    ELSE LET m == Members(incident.details)
             nearbyCameras == EarlyCameras(incident, env)
             fields == <<Field("Address", incident.address),
                         Field("Jurisdiction", StrField(m, "jurisdiction"))>>
                       \o NearbyCameraFields(nearbyCameras)
             payload == Embed(":blue_circle: " \o StrField(m, "problem") \o " :blue_circle:",
                              ColorBlue, fields, "Source: Raleigh-Wake ECC",
                              MapThumbnail(mapsAPIKey, incident), "")
         IN SendResult(~PostOk(env.post), PostOk(env.post), TRUE, payload, "",
                       EarlyLookups(incident), nearbyCameras, NoCapture, {})

\* sendDiscordAlert of the earlier generation
sendDiscordAlertEarly(mapsAPIKey, incident, env) ==
    IF incident.source = "NCDOT" THEN sendNcdotAlert(mapsAPIKey, incident, env)
    ELSE IF incident.source = "RWECC" THEN sendRweccAlert(mapsAPIKey, incident, env)
    ELSE SendResult(TRUE, FALSE, FALSE, NoPayload, "", <<>>, <<>>, NoCapture, {})

\* the call main makes in Pass 1
Send(g, mapsAPIKey, incident, env) ==
    IF g = "later" THEN sendDiscordAlert(mapsAPIKey, incident, env)
    ELSE sendDiscordAlertEarly(mapsAPIKey, incident, env)

-----------------------------------------------------------------------------
(* The store: rows of unified_incidents.  Source, address, coordinates and  *)
(* details of a row are fixed; status is written by the upstream ingester   *)
(* ("absent": the row is not inserted yet), discord_message_id by main.     *)

Inc == 1..NInc

SourceOf(i) ==
    CASE i % 4 = 1 -> "NCDOT"
      [] i % 4 = 2 -> "OTHER"
      [] i % 4 = 3 -> "ArcGIS_Police"
      [] OTHER -> "RWECC"

DetailsOf(i) ==
    CASE i % 4 = 1 ->
           JObj([raw_incident |-> JObj([reason |-> JStr("Crash"), road |-> JStr("I-40"),
                                        location |-> JStr("Exit 12"), severity |-> JNum(2)]),
                 weather |-> JNull])
      [] i % 4 = 3 ->
           JObj([raw_incident |-> JObj([case_number |-> JStr("NO_CASE-123"),
                                        crime_description |-> JStr("Larceny"),
                                        agency |-> JStr("RPD")])])
      [] OTHER -> JObj([problem |-> JStr("Water main break"),
                        jurisdiction |-> JStr("Raleigh")])

IncidentRow(i) ==
    [id |-> i, source |-> SourceOf(i), address |-> "addr" \o Itoa(i),
     latValid |-> TRUE, lonValid |-> TRUE, lat |-> 0, lon |-> 0,
     details |-> DetailsOf(i)]

CamDir(n) == {Cam(k) : k \in 1..n}

\* the outcomes of the collaborators main's sends meet: the post succeeds or not
DriverEnvs ==
    {[dir |-> CamDir(MaxCams), lookup |-> "ok", capture |-> "ok",
      audit |-> TRUE, post |-> p] : p \in {"ok", "err"}}

MapsKey == "KEY"

\* a set of incident ids as a sequence in id order
RECURSIVE Ascending(_)
Ascending(S) ==
    IF S = {} THEN <<>>
    ELSE LET m == CHOOSE m \in S : \A x \in S : m <= x
         IN <<m>> \o Ascending(S \ {m})

Reverse(q) == [k \in 1..Len(q) |-> q[Len(q) + 1 - k]]

\* the orders a result set may come in: the queries have no ORDER BY, the
\* rows come as the store scans them; the model takes id order and its reverse
Orders(S) == {Ascending(S), Reverse(Ascending(S))}

\* (mutant) the later query without AND discord_message_id IS NULL
NewIncidentsQueryNoFilter(g, st, d) == {i \in Inc : st[i] = "active"}

\* Step 1's query: WHERE status = 'active' [AND discord_message_id IS NULL]
NewIncidentsQuery(g, st, d) ==
    IF g = "later" THEN {i \in Inc : st[i] = "active" /\ d[i] = 0}
    ELSE {i \in Inc : st[i] = "active"}

\* (mutant) the query without AND discord_message_id IS NOT NULL
ClearedQueryAnyCleared(st, d) == {i \in Inc : st[i] = "cleared"}

\* Step 2's query: WHERE status = 'cleared' AND discord_message_id IS NOT NULL
ClearedQuery(st, d) == {i \in Inc : st[i] = "cleared" /\ d[i] # 0}

\* the rows of Step 2's result set: id and discord_message_id
ClearedRowsOf(q, d) == [k \in 1..Len(q) |-> [id |-> q[k], msg |-> d[q[k]]]]

\* if notifyDiscord == "0": log the incident and continue
DebugMode(g, nd) == g = "later" /\ nd = "0"

\* if !sentIDs[i.ID] (earlier); the later query has filtered already
NeedsNotify(g, sent, i) == g = "later" \/ i \notin sent

\* (mutant) break instead of continue
RowsAfterSendErrorBreak(rs) == <<>>

\* the rows left after a failed send: continue
RowsAfterSendError(rs) == Tail(rs)

\* (mutant) the UPDATE without its WHERE id = $2
StoreMessageIDNoWhere(d, i, id, ok) == IF ok THEN [j \in Inc |-> id] ELSE d

\* UPDATE unified_incidents SET discord_message_id = $1 WHERE id = $2
StoreMessageID(d, i, id, ok) == IF ok THEN [d EXCEPT ![i] = id] ELSE d

\* UPDATE unified_incidents SET discord_message_id = NULL WHERE id = $1
ClearMessageID(d, i, ok) == IF ok THEN [d EXCEPT ![i] = 0] ELSE d

\* sentIDs[i.ID] = true
MarkSent(g, sent, i) == IF g = "earlier" THEN sent \cup {i} ELSE sent

\* loadSentIncidents
loadSentIncidents(g, file) == IF g = "earlier" THEN file ELSE {}

\* the outcomes of os.WriteFile: the file holds the data; the file could not
\* be opened and is as it was; the file was truncated and the write failed,
\* so that it loads as the empty set
SaveOutcomes == {"ok", "notWritten", "truncated"}

\* (mutant) the file is saved after every Pass 1
SaveAttemptedAlways(g, found) == g = "earlier"

\* if newIncidentsFound > 0
SaveAttempted(g, found) == g = "earlier" /\ found > 0

\* if newIncidentsFound > 0 { saveSentIncidents(...) }: the file afterwards
saveSentIncidents(g, file, sent, found, outcome) ==
    IF ~SaveAttempted(g, found) THEN file
    ELSE CASE outcome = "ok" -> sent
           [] outcome = "truncated" -> {}
           [] OTHER -> file

\* the PATCH of updateDiscordAlert: the message shows the cleared variant
EditMessage(ms, id, ok) ==
    IF ok /\ id \in 1..Len(ms) THEN [ms EXCEPT ![id].state = "cleared"] ELSE ms

Zero == [i \in Inc |-> 0]

\* no request went to the channel yet in this run
NoRequest == -1

\* the time since the run's last request to the channel, after an iteration
\* that made a request: time.Sleep(2 * time.Second) is reached only when the
\* request returned no error
ElapsedAfter(requestErr) == IF requestErr THEN 0 ELSE SleepSeconds

NoLast ==
    [op |-> "none", inc |-> 0, err |-> FALSE, posted |-> FALSE, msg |-> 0,
     stored |-> FALSE, discBefore |-> 0, sentBefore |-> {}, msgsBefore |-> 0,
     rowsBefore |-> <<>>, payload |-> NoPayload, wait |-> NoRequest,
     saveTried |-> FALSE, saveOutcome |-> "none"]

InitHist ==
    [startElig |-> {}, selected |-> {}, processed |-> {}, calls |-> Zero,
     edits |-> Zero, reqs |-> 0, discAtStart |-> Zero, activeNext |-> {},
     failed |-> {}, prevFailed |-> {}, sentOk |-> {}, kept |-> {},
     prevOk |-> {}, prevKept |-> {}, startCleared |-> {}, edited |-> {},
     prevEdited |-> {}, tried |-> {}, prevTried |-> {}, p1done |-> FALSE, p2done |-> FALSE,
     lost |-> {}, prevLost |-> {}, unclr |-> {}, prevUnclr |-> {},
     elapsed |-> NoRequest, msgsAtStart |-> 0, fileAtStart |-> {},
     fileAfterP1 |-> {}]

-----------------------------------------------------------------------------
(* main: one invocation is RunStart, Pass1Step*, Pass1End, Pass2Step*,      *)
(* Pass2End.  The upstream ingester changes status at any time.             *)

NoIn == [gen |-> "", mapsAPIKey |-> "", incident |-> IncidentRow(1),
         env |-> [dir |-> {}, lookup |-> "ok", capture |-> "ok",
                  audit |-> TRUE, post |-> "ok"]]

NoOut == [done |-> FALSE,
          r |-> SendResult(FALSE, FALSE, FALSE, NoPayload, "", <<>>, <<>>, NoCapture, {})]

Init ==
    /\ gen \in {"earlier", "later"}
    /\ status = [i \in Inc |-> "absent"]
    /\ disc = Zero
    /\ msgs = <<>>
    /\ sentFile = {}
    /\ sentIDs = {}
    /\ pc = "idle"
    /\ rows = <<>>
    /\ clearedRows = <<>>
    /\ notifyDiscord = ""
    /\ newIncidentsFound = 0
    /\ clearedIncidentsUpdated = 0
    /\ runs = 0
    /\ hist = InitHist
    /\ last = NoLast
    /\ bIn = NoIn
    /\ bOut = NoOut

\* the process starts: configuration, loadSentIncidents, Step 1's query
RunStart ==
    /\ pc = "idle"
    /\ runs < MaxRuns
    /\ \E nd \in (IF gen = "later" THEN {"0", "1"} ELSE {""}) :
          notifyDiscord' = nd
    /\ sentIDs' = loadSentIncidents(gen, sentFile)
    /\ \E q \in Orders(NewIncidentsQuery(gen, status, disc)) : rows' = q
    /\ pc' = "pass1"
    /\ newIncidentsFound' = 0
    /\ clearedIncidentsUpdated' = 0
    /\ hist' = [InitHist EXCEPT
                  !.startElig = {i \in Inc : /\ status[i] = "active"
                                             /\ IF gen = "later" THEN disc[i] = 0
                                                ELSE i \notin sentFile},
                  !.selected = NewIncidentsQuery(gen, status, disc),
                  !.discAtStart = disc,
                  !.activeNext = {i \in Inc : status[i] = "active"},
                  !.prevFailed = hist.failed,
                  !.prevOk = hist.sentOk,
                  !.prevKept = hist.kept,
                  !.prevEdited = hist.edited,
                  !.prevTried = hist.tried,
                  !.prevLost = hist.lost,
                  !.prevUnclr = hist.unclr,
                  !.msgsAtStart = Len(msgs),
                  !.fileAtStart = sentFile]
    /\ last' = [NoLast EXCEPT !.op = "start"]
    /\ UNCHANGED <<gen, status, disc, msgs, sentFile, clearedRows, runs, bvars>>

\* one iteration of Step 1's loop
Pass1Step ==
    /\ pc = "pass1"
    /\ rows # <<>>
    /\ \E env \in DriverEnvs, updOk \in BOOLEAN :
          LET i == Head(rows)
              r == Send(gen, MapsKey, IncidentRow(i), env)
              debug == DebugMode(gen, notifyDiscord)
              called == ~debug /\ NeedsNotify(gen, sentIDs, i)
              ok == called /\ ~r.err
              id == Len(msgs) + 1
          IN /\ msgs' = IF called /\ r.posted
                        THEN Append(msgs, [inc |-> i, state |-> "live"])
                        ELSE msgs
             /\ disc' = IF ok THEN StoreMessageID(disc, i, id, updOk) ELSE disc
             /\ sentIDs' = IF ok THEN MarkSent(gen, sentIDs, i) ELSE sentIDs
             /\ newIncidentsFound' = IF ok THEN newIncidentsFound + 1
                                     ELSE newIncidentsFound
             /\ rows' = IF called /\ r.err THEN RowsAfterSendError(rows)
                        ELSE Tail(rows)
             /\ hist' = [hist EXCEPT
                           !.processed = @ \cup {i},
                           !.calls[i] = IF called THEN @ + 1 ELSE @,
                           !.reqs = IF called /\ r.requested THEN @ + 1 ELSE @,
                           !.failed = IF called /\ r.err THEN @ \cup {i} ELSE @,
                           !.sentOk = IF ok THEN @ \cup {i} ELSE @,
                           !.kept = IF ok /\ (gen = "later" => updOk)
                                    THEN @ \cup {i} ELSE @,
                           !.lost = IF ok /\ ~updOk THEN @ \cup {i} ELSE @,
                           !.elapsed = IF called /\ r.requested
                                       THEN ElapsedAfter(r.err) ELSE @]
             /\ last' = [NoLast EXCEPT
                           !.op = IF debug THEN "debug"
                                  ELSE IF called THEN "notify" ELSE "skip",
                           !.inc = i,
                           !.err = called /\ r.err,
                           !.posted = called /\ r.posted,
                           !.msg = IF ok THEN id ELSE 0,
                           !.stored = ok /\ updOk,
                           !.discBefore = disc[i],
                           !.sentBefore = sentIDs,
                           !.msgsBefore = Len(msgs),
                           !.rowsBefore = rows,
                           !.wait = IF called /\ r.requested THEN hist.elapsed
                                    ELSE NoRequest]
    /\ UNCHANGED <<gen, status, sentFile, pc, clearedRows, notifyDiscord,
                   clearedIncidentsUpdated, runs, bvars>>

\* after Step 1's loop: save the sent-state file, then Step 2's query
Pass1End ==
    /\ pc = "pass1"
    /\ rows = <<>>
    /\ \E out \in SaveOutcomes :
          /\ sentFile' = saveSentIncidents(gen, sentFile, sentIDs,
                                           newIncidentsFound, out)
          /\ last' = [NoLast EXCEPT
                        !.op = "pass1end",
                        !.saveTried = SaveAttempted(gen, newIncidentsFound),
                        !.saveOutcome = IF SaveAttempted(gen, newIncidentsFound)
                                        THEN out ELSE "none"]
          /\ hist' = [hist EXCEPT
                        !.kept = IF gen = "earlier" /\ out # "ok" THEN {} ELSE @,
                        !.p1done = TRUE,
                        !.fileAfterP1 = saveSentIncidents(gen, sentFile, sentIDs,
                                                          newIncidentsFound, out),
                        !.startCleared = ClearedQuery(status, disc)]
    /\ \E q \in Orders(ClearedQuery(status, disc)) :
          clearedRows' = ClearedRowsOf(q, disc)
    /\ pc' = "pass2"
    /\ UNCHANGED <<gen, status, disc, msgs, sentIDs, rows, notifyDiscord,
                   newIncidentsFound, clearedIncidentsUpdated, runs, bvars>>

\* one iteration of Step 2's loop
Pass2Step ==
    /\ pc = "pass2"
    /\ clearedRows # <<>>
    /\ \E editOk \in BOOLEAN, updOk \in BOOLEAN :
          LET row == Head(clearedRows)
              i == row.id
          IN /\ msgs' = EditMessage(msgs, row.msg, editOk)
             /\ disc' = IF editOk THEN ClearMessageID(disc, i, updOk) ELSE disc
             /\ clearedIncidentsUpdated' = IF editOk THEN clearedIncidentsUpdated + 1
                                           ELSE clearedIncidentsUpdated
             /\ clearedRows' = Tail(clearedRows)
             /\ hist' = [hist EXCEPT
                           !.edits[i] = @ + 1,
                           !.reqs = @ + 1,
                           !.tried = @ \cup {i},
                           !.edited = IF editOk /\ updOk THEN @ \cup {i} ELSE @,
                           !.unclr = IF editOk /\ ~updOk THEN @ \cup {i} ELSE @,
                           !.elapsed = ElapsedAfter(~editOk)]
             /\ last' = [NoLast EXCEPT
                           !.op = "edit",
                           !.inc = i,
                           !.err = ~editOk,
                           !.msg = row.msg,
                           !.stored = editOk /\ updOk,
                           !.discBefore = disc[i],
                           !.msgsBefore = Len(msgs),
                           !.payload = ClearedPayload(IncidentRow(i)),
                           !.wait = hist.elapsed]
    /\ UNCHANGED <<gen, status, sentFile, sentIDs, pc, rows, notifyDiscord,
                   newIncidentsFound, runs, bvars>>

\* "Run complete."
Pass2End ==
    /\ pc = "pass2"
    /\ clearedRows = <<>>
    /\ pc' = "idle"
    /\ runs' = runs + 1
    /\ hist' = [hist EXCEPT !.p2done = TRUE]
    /\ last' = [NoLast EXCEPT !.op = "end"]
    /\ UNCHANGED <<gen, status, disc, msgs, sentFile, sentIDs, rows, clearedRows,
                   notifyDiscord, newIncidentsFound, clearedIncidentsUpdated,
                   bvars>>

\* main reads status in its two queries only, so a change of status between
\* two queries is the same to main wherever it falls: the ingester's steps
\* are taken right before a query (Step 1's at the start, Step 2's after
\* Step 1's loop).
BeforeQuery == pc = "idle" \/ (pc = "pass1" /\ rows = <<>>)

\* new data: what the history remembers of earlier runs no longer applies
NewData(h) == [h EXCEPT !.sentOk = {}, !.kept = {}, !.prevOk = {},
                        !.prevKept = {}, !.edited = {}, !.prevEdited = {},
                        !.tried = {}, !.prevTried = {}, !.lost = {},
                        !.prevLost = {}, !.unclr = {}, !.prevUnclr = {}]

\* the upstream ingester: an incident left the active feed
IngesterClear ==
    /\ BeforeQuery
    /\ \E i \in Inc :
          /\ status[i] = "active"
          /\ status' = [status EXCEPT ![i] = "cleared"]
    /\ hist' = NewData(hist)
    /\ UNCHANGED <<gen, disc, msgs, sentFile, sentIDs, pc, rows, clearedRows,
                   notifyDiscord, newIncidentsFound, clearedIncidentsUpdated,
                   runs, last, bvars>>

\* the upstream ingester: a new incident enters the active feed
IngesterInsert ==
    /\ BeforeQuery
    /\ \E i \in Inc :
          /\ status[i] = "absent"
          /\ status' = [status EXCEPT ![i] = "active"]
    /\ hist' = NewData(hist)
    /\ UNCHANGED <<gen, disc, msgs, sentFile, sentIDs, pc, rows, clearedRows,
                   notifyDiscord, newIncidentsFound, clearedIncidentsUpdated,
                   runs, last, bvars>>

Next ==
    \/ RunStart
    \/ Pass1Step
    \/ Pass1End
    \/ Pass2Step
    \/ Pass2End
    \/ IngesterClear
    \/ IngesterInsert

Spec == Init /\ [][Next]_vars

-----------------------------------------------------------------------------
(* The senders and builders as functions: an input is drawn, and one call   *)
(* of sendDiscordAlert is made on it.                                       *)

NcdotRaw(sev) ==
    JObj([reason |-> JStr("Crash"), road |-> JStr("I-40"),
          location |-> JStr("Exit 12"), severity |-> sev])

RweccRaw == JObj([problem |-> JStr("Water main break"), jurisdiction |-> JStr("Raleigh")])

ArcGisRaw(caseNumber) ==
    JObj([case_number |-> JStr(caseNumber), crime_description |-> JStr("Larceny"),
          agency |-> JStr("RPD")])

WeatherDoc ==
    JObj([temperature |-> JNum(72), windSpeed |-> JStr("5 mph"),
          shortForecast |-> JStr("Sunny"), icon |-> JStr("http://i")])

\* the new shape: raw_incident, and weather when given
Nested(raw) == JObj([raw_incident |-> raw])
NestedWith(raw, weather) == JObj([raw_incident |-> raw, weather |-> weather])

NcdotDocs ==
    {NestedWith(NcdotRaw(JNum(n)), JNull) : n \in 0..4}
    \cup {NestedWith(JObj([reason |-> JStr("Crash"), road |-> JStr("I-40"),
                           location |-> JStr("Exit 12")]), JNull),
          NestedWith(NcdotRaw(JNum(1)), WeatherDoc),
          Nested(NcdotRaw(JNum(3))),
          NcdotRaw(JNum(3)),
          NestedWith(NcdotRaw(JStr("2")), JNull),
          NcdotRaw(JStr("2")),
          JInvalid, JArr}

RweccDocs ==
    {NestedWith(RweccRaw, JNull), Nested(RweccRaw), NestedWith(RweccRaw, WeatherDoc),
     RweccRaw, JNull, JArr, JInvalid}

ArcGisDocs ==
    {Nested(ArcGisRaw("24-001")), Nested(ArcGisRaw("NO_CASE-123")),
     ArcGisRaw("24-001"), ArcGisRaw("NO_CASE-123"),
     Nested(JObj([crime_description |-> JStr("Larceny"), agency |-> JStr("RPD")])),
     JInvalid}

DocsFor(source) ==
    CASE source = "NCDOT" -> NcdotDocs
      [] source = "RWECC" -> RweccDocs
      [] source = "ArcGIS_Police" -> ArcGisDocs
      [] OTHER -> {RweccRaw}

BuildSources == {"NCDOT", "RWECC", "ArcGIS_Police", "OTHER"}

BuildIncidents ==
    {[id |-> 7, source |-> src, address |-> "101 Main St",
      latValid |-> la, lonValid |-> lo, lat |-> 0, lon |-> 0, details |-> d] :
        src \in BuildSources, la \in BOOLEAN, lo \in BOOLEAN,
        d \in UNION {DocsFor(x) : x \in BuildSources}}

BuildEnvs(g) ==
    {[dir |-> CamDir(n), lookup |-> l, capture |-> c, audit |-> a, post |-> p] :
        n \in 0..MaxCams, l \in {"ok", "err"},
        c \in (IF g = "later" THEN {"ok", "non200", "copyErr"} ELSE {"ok"}),
        a \in (IF g = "later" THEN BOOLEAN ELSE {TRUE}), p \in {"ok", "err"}}

InitBuild ==
    /\ gen \in {"earlier", "later"}
    /\ status = [i \in Inc |-> "absent"]
    /\ disc = Zero
    /\ msgs = <<>>
    /\ sentFile = {}
    /\ sentIDs = {}
    /\ pc = "idle"
    /\ rows = <<>>
    /\ clearedRows = <<>>
    /\ notifyDiscord = ""
    /\ newIncidentsFound = 0
    /\ clearedIncidentsUpdated = 0
    /\ runs = 0
    /\ hist = InitHist
    /\ last = NoLast
    /\ \E k \in {"", "KEY"}, inc \in BuildIncidents, env \in BuildEnvs(gen) :
          /\ inc.details \in DocsFor(inc.source)
          /\ env.capture # "ok" => env.audit
          /\ bIn = [gen |-> gen, mapsAPIKey |-> k, incident |-> inc, env |-> env]
    /\ bOut = NoOut

\* one call of the later generation's sendDiscordAlert
CallLater ==
    /\ bIn.gen = "later"
    /\ ~bOut.done
    /\ bOut' = [done |-> TRUE,
                r |-> sendDiscordAlert(bIn.mapsAPIKey, bIn.incident, bIn.env)]
    /\ UNCHANGED <<dvars, bIn>>

\* one call of the earlier generation's sendDiscordAlert
CallEarly ==
    /\ bIn.gen = "earlier"
    /\ ~bOut.done
    /\ bOut' = [done |-> TRUE,
                r |-> sendDiscordAlertEarly(bIn.mapsAPIKey, bIn.incident, bIn.env)]
    /\ UNCHANGED <<dvars, bIn>>

NextBuild ==
    \/ CallLater
    \/ CallEarly

SpecBuild == InitBuild /\ [][NextBuild]_vars

-----------------------------------------------------------------------------
(* Properties of one call of sendDiscordAlert (checked under SpecBuild) *)

CallDone == bOut.done
CallLaterDone == bOut.done /\ bIn.gen = "later"
BothCoordinates == bIn.incident.latValid /\ bIn.incident.lonValid

CountFields(p, n) == Cardinality({k \in 1..Len(p.fields) : p.fields[k].name = n})

\* a legacy-shape document: the incident fields at the top level, no raw_incident
IsLegacyDoc(d) ==
    d.t = "object" /\ DOMAIN d.o # {} /\ "raw_incident" \notin DOMAIN d.o

\* C5: in the later generation a legacy-shape details document gives the same
\* title, color and fields as the new-shape document that nests the same
\* fields under raw_incident without weather; RWECC details with top-level
\* problem P and jurisdiction J give a title containing P, color 3447003,
\* Jurisdiction = J and no weather field.
C5_LegacySameAsNested ==
    (CallLaterDone /\ bIn.incident.source \in {"NCDOT", "RWECC", "ArcGIS_Police"}
        /\ IsLegacyDoc(bIn.incident.details))
    => LET p == bOut.r.payload
           d == bIn.incident.details
           q == sendDiscordAlert(bIn.mapsAPIKey,
                                 [bIn.incident EXCEPT !.details = Nested(d)],
                                 bIn.env).payload
       IN /\ p.title = q.title
          /\ p.color = q.color
          /\ p.fields = q.fields
          /\ (bIn.incident.source = "RWECC" /\ d = RweccRaw)
             => /\ Contains(p.title, "Water main break")
                /\ p.color = 3447003
                /\ FieldValue(p, "Jurisdiction") = "Raleigh"
                /\ "Weather Conditions" \notin FieldNames(p)

\* the links of the cameras i..Len(cams), one per line
RECURSIVE ExpectedLinks(_, _)
ExpectedLinks(cams, i) ==
    IF i > Len(cams) THEN ""
    ELSE "[" \o cams[i].name \o "](" \o cams[i].url \o ")"
         \o (IF i < Len(cams) THEN "\n" ELSE "") \o ExpectedLinks(cams, i + 1)

\* C8: for NCDOT and RWECC the Camera Directory is queried only when both
\* coordinates are present, and then once, for 3 cameras; the earlier
\* generation lists every returned camera in one "Nearby Cameras" field; the
\* later generation downloads and attaches only the first returned camera
\* and lists exactly the remaining ones in one "Other Live Cameras" field;
\* with no camera returned or a coordinate absent there is no camera field
\* and no attachment.
C8_CameraEnrichment ==
    (CallDone /\ bIn.incident.source \in {"NCDOT", "RWECC"})
    => LET r == bOut.r
           p == r.payload
           cams == r.cams
       IN /\ r.lookups # <<>> => BothCoordinates
          /\ Len(r.lookups) <= 1
          /\ \A k \in 1..Len(r.lookups) : r.lookups[k] = 3
          /\ Len(cams) <= 3
          /\ (bIn.env.lookup = "ok" /\ r.lookups # <<>>)
             => Len(cams) = Min(3, Cardinality(bIn.env.dir))
          /\ bIn.gen = "earlier"
             => /\ r.attachment = "" /\ r.downloads = <<>> /\ p.image = ""
                /\ CountFields(p, "Other Live Cameras") = 0
                /\ IF Len(cams) > 0
                   THEN /\ CountFields(p, "Nearby Cameras") = 1
                        /\ FieldValue(p, "Nearby Cameras") = ExpectedLinks(cams, 1)
                   ELSE CountFields(p, "Nearby Cameras") = 0
          /\ bIn.gen = "later"
             => /\ CountFields(p, "Nearby Cameras") = 0
                /\ r.downloads = IF Len(cams) > 0 THEN <<cams[1].url>> ELSE <<>>
                /\ r.attachment # "" => (Len(cams) > 0 /\ bIn.env.capture = "ok")
                /\ (p.image # "") = (r.attachment # "")
                /\ IF Len(cams) > 1
                   THEN /\ CountFields(p, "Other Live Cameras") = 1
                        /\ FieldValue(p, "Other Live Cameras") = ExpectedLinks(cams, 2)
                   ELSE CountFields(p, "Other Live Cameras") = 0
          /\ (~BothCoordinates \/ Len(cams) = 0)
             => /\ FieldNames(p) \cap {"Nearby Cameras", "Other Live Cameras"} = {}
                /\ r.attachment = ""
                /\ p.image = ""

\* C8's case: the later generation, both coordinates, a directory of more
\* than 3 cameras, the capture succeeded: 3 returned, the first attached,
\* the second and third listed
C8_Witness ==
    /\ CallLaterDone
    /\ bIn.incident.source = "NCDOT"
    /\ BothCoordinates
    /\ Cardinality(bIn.env.dir) > 3
    /\ Len(bOut.r.cams) = 3
    /\ bOut.r.attachment # ""
    /\ CountFields(bOut.r.payload, "Other Live Cameras") = 1
    /\ bOut.r.posted

\* C9: in the later generation an ArcGIS_Police incident, whatever its
\* coordinates, causes no Camera Directory lookup, no image capture, no
\* attachment, and its payload has no camera field.
C9_ArcGisNoCameras ==
    (CallLaterDone /\ bIn.incident.source = "ArcGIS_Police")
    => LET r == bOut.r
       IN /\ r.lookups = <<>>
          /\ r.cams = <<>>
          /\ r.downloads = <<>>
          /\ r.filesMade = {}
          /\ r.audits = <<>>
          /\ r.attachment = ""
          /\ ~HasPrefix(r.payload.image, "attachment://")
          /\ FieldNames(r.payload) \cap {"Nearby Cameras", "Other Live Cameras"} = {}
          /\ r.requested

\* C9's case: an ArcGIS_Police incident with both coordinates and cameras in
\* the directory was sent
C9_Witness ==
    /\ CallLaterDone
    /\ bIn.incident.source = "ArcGIS_Police"
    /\ BothCoordinates
    /\ Cardinality(bIn.env.dir) > 0
    /\ bIn.env.lookup = "ok"
    /\ bOut.r.posted

\* a new-shape NCDOT document whose weather is null and whose raw_incident
\* holds reason, road, location as strings and severity as a number or not at all
IsNcdotNewNullWeather(d) ==
    /\ d.t = "object"
    /\ DOMAIN d.o = {"raw_incident", "weather"}
    /\ d.o["weather"].t = "null"
    /\ d.o["raw_incident"].t = "object"
    /\ {"reason", "road", "location"} \subseteq DOMAIN d.o["raw_incident"].o
    /\ \A k \in {"reason", "road", "location"} : d.o["raw_incident"].o[k].t = "string"
    /\ "severity" \in DOMAIN d.o["raw_incident"].o
       => d.o["raw_incident"].o["severity"].t = "number"

DecimalText == <<"0", "1", "2", "3", "4", "5", "6", "7", "8", "9">>

\* C10: in the later generation, for an NCDOT incident with new-shape details,
\* weather null and no cameras, the fields are exactly Reason, Road,
\* Location, Severity in that order with raw_incident's values, there is no
\* "Weather Conditions" field, and the color is 3066993 for severity 1,
\* 16776960 for 2, 15158332 for 3 and 2105893 for every other or a missing
\* severity.
C10_NcdotFieldsAndColor ==
    (CallLaterDone /\ bIn.incident.source = "NCDOT"
        /\ IsNcdotNewNullWeather(bIn.incident.details) /\ bOut.r.cams = <<>>)
    => LET raw == bIn.incident.details.o["raw_incident"].o
           sev == IF "severity" \in DOMAIN raw THEN raw["severity"].n ELSE 0
           p == bOut.r.payload
       IN /\ p.fields = <<[name |-> "Reason", value |-> raw["reason"].s],
                          [name |-> "Road", value |-> raw["road"].s],
                          [name |-> "Location", value |-> raw["location"].s],
                          [name |-> "Severity", value |-> DecimalText[sev + 1]]>>
          /\ "Weather Conditions" \notin FieldNames(p)
          /\ p.color = IF sev = 1 THEN 3066993
                       ELSE IF sev = 2 THEN 16776960
                       ELSE IF sev = 3 THEN 15158332
                       ELSE 2105893

\* C10's case: the document of severity 2 was built yellow, and one of
\* severity 3 red, and one without severity neutral
C10_Witness ==
    /\ CallLaterDone
    /\ bIn.incident.source = "NCDOT"
    /\ IsNcdotNewNullWeather(bIn.incident.details)
    /\ bOut.r.cams = <<>>
    /\ "severity" \in DOMAIN bIn.incident.details.o["raw_incident"].o
    /\ bIn.incident.details.o["raw_incident"].o["severity"].n = 3
    /\ bOut.r.payload.color = 15158332
    /\ FieldValue(bOut.r.payload, "Severity") = "3"

-----------------------------------------------------------------------------
(* Properties of the runs (checked under Spec) *)

\* NOTIFY_DISCORD=0 in the later generation
ToggleOff == gen = "later" /\ notifyDiscord = "0"

\* the source tags each generation recognises
RecognisedSources ==
    IF gen = "later" THEN {"NCDOT", "RWECC", "ArcGIS_Police"} ELSE {"NCDOT", "RWECC"}

\* the last step of main was a notify call that returned an identifier
NotifySucceeded == last.op = "notify" /\ ~last.err

\* the last step of main was a notify call that returned an error
NotifyFailed == last.op = "notify" /\ last.err

\* a live message of incident i is in the channel
HasLiveMessage(i) ==
    \E m \in 1..Len(msgs) : msgs[m].inc = i /\ msgs[m].state = "live"

\* C1 as stated: every incident active and not notified at the start of a run
\* gets exactly one notify call in Pass 1; when the call succeeds
\* notification_id is the identifier returned; a run right after, with no new
\* data, makes no notify call for it.
C1_Original ==
    /\ hist.p1done => \A i \in hist.startElig : hist.calls[i] = 1
    /\ NotifySucceeded => disc[last.inc] = last.msg
    /\ \A i \in hist.prevOk : hist.calls[i] = 0

\* C1 (amended): every incident active and not notified at the start of a run
\* gets exactly one notify call in Pass 1, and none when the later generation
\* runs with NOTIFY_DISCORD=0; when the call succeeds notification_id is the
\* identifier the channel returned if the store update succeeds and is left
\* as it was if the update fails; a run right after, with no new data, makes
\* no notify call for an incident whose notification was recorded (the
\* update succeeded; in the earlier generation, the sent-state file was
\* saved).
C1_NotifyOnce ==
    /\ hist.p1done
       => \A i \in hist.startElig : hist.calls[i] = IF ToggleOff THEN 0 ELSE 1
    /\ \A i \in Inc : hist.calls[i] <= 1
    /\ NotifySucceeded
       => /\ last.msg \in 1..Len(msgs)
          /\ msgs[last.msg].inc = last.inc
          /\ disc[last.inc] = IF last.stored THEN last.msg ELSE last.discBefore
    /\ \A i \in hist.prevKept : hist.calls[i] = 0

\* C1's case: a second run, right after a run that notified an incident and
\* recorded it, has finished its Pass 1
C1_Witness ==
    /\ hist.p1done
    /\ hist.prevKept # {}
    /\ ~ToggleOff
    /\ \E i \in hist.prevKept : disc[i] # 0 /\ status[i] = "active"

\* the payload of the last edit is the cleared variant
ClearedShape(p, i) ==
    /\ Contains(p.title, "Incident Cleared")
    /\ p.color = 3066993
    /\ Len(p.fields) = 2
    /\ p.fields[1] = [name |-> "Source", value |-> SourceOf(i)]
    /\ p.fields[2].name = "Address"
    /\ p.fields[2].value = IncidentRow(i).address

\* C2 as stated: a cleared incident with notification_id set gets exactly one
\* edit call in Pass 2, addressed to that id, with the cleared payload, and
\* afterwards its notification_id is null, so the following run makes no
\* edit for it.
C2_Original ==
    /\ hist.p2done => \A i \in hist.startCleared : hist.edits[i] = 1
    /\ last.op = "edit"
       => /\ last.msg = last.discBefore
          /\ ClearedShape(last.payload, last.inc)
          /\ disc[last.inc] = 0
    /\ \A i \in hist.prevTried : hist.edits[i] = 0

\* C2 (amended): a cleared incident with notification_id set gets exactly one
\* edit call in Pass 2, addressed to that id, with the cleared payload;
\* afterwards its notification_id is null if the edit and the store update
\* succeeded and is left as it was otherwise; after an edit and update that
\* succeeded the following run makes no edit for it.
C2_ClearOnce ==
    /\ hist.p2done => \A i \in hist.startCleared : hist.edits[i] = 1
    /\ \A i \in Inc : hist.edits[i] <= 1
    /\ last.op = "edit"
       => /\ last.msg # 0
          /\ last.msg = last.discBefore
          /\ ClearedShape(last.payload, last.inc)
          /\ disc[last.inc] = IF last.stored THEN 0 ELSE last.discBefore
    /\ \A i \in hist.prevEdited : hist.edits[i] = 0

\* C2's case: the run after one that edited an incident's message to cleared
\* and nulled its notification_id has finished
C2_Witness ==
    /\ hist.p2done
    /\ hist.prevEdited # {}
    /\ \E i \in hist.prevEdited : disc[i] = 0 /\ status[i] = "cleared"

\* C3: at the end of every run an incident's notification_id is non-null if
\* and only if a message posted for it is live.
C3_IdIffLive ==
    (pc = "idle" /\ runs > 0)
    => \A i \in Inc : (disc[i] # 0) <=> HasLiveMessage(i)

\* C4: a failed notify call for X leaves X's notification_id and the
\* sent-state set as they were, the loop goes on with the rows after X and
\* every selected row is processed in the pass, and X, if still active, is
\* selected again by the next run.
C4_SendFailureIsolated ==
    /\ NotifyFailed
       => /\ disc[last.inc] = last.discBefore
          /\ sentIDs = last.sentBefore
          /\ last.inc \notin sentIDs
          /\ Len(msgs) = last.msgsBefore
          /\ pc = "pass1"
          /\ rows = Tail(last.rowsBefore)
    /\ hist.p1done => hist.processed = hist.selected
    /\ \A x \in hist.prevFailed \cap hist.activeNext :
          x \in hist.selected /\ x \in hist.startElig

\* C4's case: in the run after one where X's notify failed, X is selected
\* again, and a notify fails with rows still to come
C4_Witness ==
    /\ hist.prevFailed \cap hist.activeNext # {}
    /\ NotifyFailed
    /\ SourceOf(last.inc) \in RecognisedSources
    /\ rows # <<>>

\* C6: for an incident whose source is not recognised sendDiscordAlert
\* returns an error, no message is posted, notification_id and the
\* sent-state entry are not written, and the run continues with the next
\* incident.
C6_UnknownSource ==
    (last.op = "notify" /\ SourceOf(last.inc) \notin RecognisedSources)
    => /\ last.err
       /\ ~last.posted
       /\ Len(msgs) = last.msgsBefore
       /\ disc[last.inc] = last.discBefore
       /\ sentIDs = last.sentBefore
       /\ last.inc \notin sentIDs
       /\ last.inc \notin hist.sentOk
       /\ pc = "pass1"
       /\ rows = Tail(last.rowsBefore)

\* C6's case: the later generation met an unknown source with a row still to
\* come
C6_Witness ==
    /\ gen = "later"
    /\ last.op = "notify"
    /\ SourceOf(last.inc) = "OTHER"
    /\ rows # <<>>

\* C7: in the later generation with NOTIFY_DISCORD=0 no request goes to the
\* Notification Channel in the whole run, in Pass 1 or Pass 2, and no
\* incident's notification_id changes.
C7_DebugModeSilent ==
    ToggleOff => (hist.reqs = 0 /\ disc = hist.discAtStart)

-----------------------------------------------------------------------------
(* The ArcGIS/Police builder's "Case #" field (checked under SpecBuild) *)

\* the case_number buildArcGisPayload parses: the string under
\* raw_incident.case_number of a JSON object, and "" when there is none
ParsedCaseNumber(d) ==
    IF /\ d.t = "object"
       /\ "raw_incident" \in DOMAIN d.o
       /\ d.o["raw_incident"].t = "object"
       /\ "case_number" \in DOMAIN d.o["raw_incident"].o
       /\ d.o["raw_incident"].o["case_number"].t = "string"
    THEN d.o["raw_incident"].o["case_number"].s
    ELSE ""

StartsWithSentinel(c) == Len(c) >= 8 /\ SubSeq(c, 1, 8) = "NO_CASE-"

\* C11: in the later generation's ArcGIS/Police builder the output has a
\* "Case #" field if and only if the parsed case_number does not start with
\* "NO_CASE-"; when present it is the one field between Agency and Reported
\* and its value is the case_number; when absent Reported follows Agency.
C11_CaseNumberField ==
    (CallLaterDone /\ bIn.incident.source = "ArcGIS_Police")
    => LET p == bOut.r.payload
           c == ParsedCaseNumber(bIn.incident.details)
           n == Len(p.fields)
       IN /\ ("Case #" \in FieldNames(p)) = ~StartsWithSentinel(c)
          /\ CountFields(p, "Case #") <= 1
          /\ p.fields[1].name = "Address"
          /\ p.fields[2].name = "Agency"
          /\ p.fields[n].name = "Reported"
          /\ IF StartsWithSentinel(c)
             THEN n = 3
             ELSE /\ n = 4
                  /\ p.fields[3] = [name |-> "Case #", value |-> c]

\* C11's case: an ArcGIS incident whose case_number is "NO_CASE-123" was
\* built and its payload has no "Case #" field
C11_Witness ==
    /\ CallLaterDone
    /\ bIn.incident.source = "ArcGIS_Police"
    /\ ParsedCaseNumber(bIn.incident.details) = "NO_CASE-123"
    /\ "Case #" \notin FieldNames(bOut.r.payload)
    /\ Len(bOut.r.payload.fields) = 3

-----------------------------------------------------------------------------
(* What a run writes to the rows of unified_incidents (checked under Spec) *)

\* a step of main (the ingester's steps leave main's record of its last
\* operation as it was)
ProgramStep == last' # last

\* C12: no step of a run, in either generation, changes any incident's
\* status; a step changes an incident's notification_id only by setting it
\* to the identifier returned by the post that just succeeded for that
\* incident (Pass 1) or to null for the incident whose edit just succeeded
\* (Pass 2); every other incident's row is left unchanged by the step.
C12_FrameEffect ==
    [][ProgramStep =>
          /\ status' = status
          /\ \A i \in Inc :
                disc'[i] # disc[i] =>
                   \/ /\ last'.op = "notify"
                      /\ last'.inc = i
                      /\ last'.posted
                      /\ Len(msgs') = Len(msgs) + 1
                      /\ msgs'[Len(msgs')].inc = i
                      /\ disc'[i] = Len(msgs')
                   \/ /\ last'.op = "edit"
                      /\ last'.inc = i
                      /\ ~last'.err
                      /\ disc[i] = last'.msg
                      /\ disc'[i] = 0
          /\ last'.op \notin {"notify", "edit"} => disc' = disc]_vars

\* C12's case: a post has just succeeded and its identifier was stored for
\* one incident while another incident's row is in the store, its
\* notification_id still null
C12_Witness ==
    /\ last.op = "notify"
    /\ last.stored
    /\ last.discBefore = 0
    /\ disc[last.inc] = last.msg
    /\ \E j \in Inc : j # last.inc /\ status[j] # "absent" /\ disc[j] = 0

-----------------------------------------------------------------------------
(* A store update that fails after the channel call succeeded (under Spec) *)

\* C13: in both generations, when the update of notification_id fails after
\* a successful post in Pass 1 or after a successful edit in Pass 2, the loop
\* continues with the next incident, and on the next invocation the incident
\* is selected again: for notify if it is still active, for edit in Pass 2.
C13_UpdateFailureRetried ==
    /\ (last.op = "notify" /\ last.posted /\ ~last.stored)
       => rows = Tail(last.rowsBefore)
    /\ \A i \in hist.prevLost :
          i \in hist.activeNext => i \in hist.startElig
    /\ \A i \in hist.prevUnclr :
          hist.p1done => i \in hist.startCleared

-----------------------------------------------------------------------------
(* The delay between requests to the Notification Channel (under Spec) *)

\* C14: within one run, between any two consecutive requests to the
\* Notification Channel (two posts, two edits, or the last post and the first
\* edit) the fixed 2-unit delay elapses, whether the earlier of the two
\* requests succeeded or failed.
C14_DelayBetweenRequests ==
    (last.op \in {"notify", "edit"} /\ last.wait # NoRequest)
    => last.wait >= 2

-----------------------------------------------------------------------------
(* Details that do not parse (checked under SpecBuild) *)

\* a details document that parses in neither shape: it is no JSON object
ParsesInNeitherShape(d) == d.t \in {"invalid", "array", "null"}

-----------------------------------------------------------------------------
(* Temporary camera-image files (checked under SpecBuild) *)

\* C16: in the later generation every temporary camera-image file created
\* for an incident is removed by the time sendDiscordAlert returns, on every
\* path: the send succeeded, the send failed, the image copy failed, or the
\* source was unknown; at most one file is created per call.
C16_TempFilesRemoved ==
    CallLaterDone
    => /\ bOut.r.filesLeft = {}
       /\ Cardinality(bOut.r.filesMade) <= 1
       /\ bOut.r.attachment # "" => bOut.r.attachment \in bOut.r.filesMade

\* C16's case: the source was unknown after the nearest camera's image had
\* been captured to a temporary file
C16_Witness ==
    /\ CallLaterDone
    /\ bIn.incident.source = "OTHER"
    /\ bIn.env.capture = "ok"
    /\ bOut.r.filesMade # {}
    /\ bOut.r.err
    /\ ~bOut.r.requested
    /\ bOut.r.filesLeft = {}

-----------------------------------------------------------------------------
(* Failures of the camera work (checked under SpecBuild) *)

CaptureTried == bOut.r.downloads # <<>>

\* C17: in the later generation, for NCDOT and RWECC, a failed camera lookup,
\* a failed capture of the nearest camera's image or a failed audit-row
\* insert never prevents the notification: the request to the channel is
\* made; after a failed lookup or a failed capture there is no attachment
\* and the payload has no attachment image reference; after a failed
\* audit-row insert the captured image is attached and referenced.
C17_CameraFailuresNonFatal ==
    (CallLaterDone /\ bIn.incident.source \in {"NCDOT", "RWECC"})
    => LET r == bOut.r
           p == r.payload
       IN /\ r.requested
          /\ r.posted = (bIn.env.post = "ok")
          /\ (r.lookups # <<>> /\ bIn.env.lookup = "err")
             => /\ r.cams = <<>>
                /\ ~CaptureTried
                /\ r.attachment = ""
                /\ p.image = ""
          /\ (CaptureTried /\ bIn.env.capture # "ok")
             => /\ r.attachment = ""
                /\ p.image = ""
                /\ r.audits = <<>>
          /\ (CaptureTried /\ bIn.env.capture = "ok" /\ ~bIn.env.audit)
             => /\ r.audits = <<>>
                /\ r.attachment \in r.filesMade
                /\ Len(p.image) > Len("attachment://")
                /\ SubSeq(p.image, 1, Len("attachment://")) = "attachment://"
                /\ "/tmp/" \o SubSeq(p.image, Len("attachment://") + 1, Len(p.image))
                      = r.attachment

\* C17's case: the capture of the nearest camera's image got a non-200
\* response and the notification was posted without an attachment
C17_Witness ==
    /\ CallLaterDone
    /\ bIn.incident.source = "RWECC"
    /\ CaptureTried
    /\ bIn.env.capture = "non200"
    /\ bOut.r.posted
    /\ bOut.r.attachment = ""
    /\ bOut.r.payload.image = ""

-----------------------------------------------------------------------------
(* The sent-state file of the earlier generation (checked under Spec) *)

\* the incidents whose notification the channel accepted in this run
SentThisRun == {msgs[k].inc : k \in (hist.msgsAtStart + 1)..Len(msgs)}

\* the file is not written during Step 1's loop, during Pass 2 or after it
FileWrittenOnlyAfterLoop ==
    /\ pc = "pass1" => sentFile = hist.fileAtStart
    /\ hist.p1done => sentFile = hist.fileAfterP1

====
